---- MODULE Spec2Model ----
(***************************************************************************)
(* Model of the Stripe checkout notification Lambda                        *)
(* (hideokamoto/lambda-stripe-notifications): the handler of               *)
(* src/unnamed/part_003 and its credential resolver getStripeSecretKey.    *)
(*                                                                         *)
(* JavaScript strings are TLA+ strings; a text built by a template literal *)
(* or by join() is the sequence of its pieces.  `undefined` is Absent.     *)
(* One step of the model is the code between two awaits.                   *)
(***************************************************************************)
EXTENDS Integers, Sequences, FiniteSets, TLC

VARIABLES env, event, pc, calls, secretResponse, stripeSecretKey,
          lineItemsResponse, slackNotificationMessage, topic, logs, outcome, error,
          props, lambdaFunction, rolePolicy, constructorError,
          previous, suspended

vars == <<env, event, pc, calls, secretResponse, stripeSecretKey,
          lineItemsResponse, slackNotificationMessage, topic, logs, outcome, error,
          props, lambdaFunction, rolePolicy, constructorError,
          previous, suspended>>

\* the other invocations of the same function instance: what is left of the
\* invocation that ended before this one, and the invocation waiting at an
\* await while this one runs
platformVars == <<previous, suspended>>

\* the state of the StripeCheckoutHandler construct
cdkVars == <<props, lambdaFunction, rolePolicy, constructorError>>

(***************************************************************************)
(* Bounds of the model.                                                    *)
(***************************************************************************)
MaxItems == 2

(***************************************************************************)
(* JavaScript values.                                                      *)
(***************************************************************************)
Absent == "<undefined>"

\* !v for a value that is a string or undefined
Falsy(v) == v = Absent \/ v = ""

\* new Error(message)
MkError(message) == [isError |-> TRUE, message |-> message]

\* a thrown value that is not an Error instance
NonErrorThrown == [isError |-> FALSE, message |-> <<>>]

\* error instanceof Error ? error.message : "Unknown error"
ErrorMessageOrUnknown(e) == IF e.isError THEN e.message ELSE <<"Unknown error">>

RECURSIVE Join(_, _)
\* Array.prototype.join over pieces: the separator between consecutive elements
Join(seq, sep) ==
  IF Len(seq) = 0 THEN <<>>
  ELSE IF Len(seq) = 1 THEN <<seq[1]>>
  ELSE <<seq[1], sep>> \o Join(Tail(seq), sep)

Includes(seq, x) == \E i \in 1..Len(seq) : seq[i] = x

(***************************************************************************)
(* The execution environment (process.env).                                *)
(***************************************************************************)
SecretSources == {Absent, "env", "secretsmanager", "ssm", "vault"}

PipelineEnvs ==
  [ STRIPE_SECRET_SOURCE         : SecretSources,
    STRIPE_SECRET_KEY            : {Absent, "", "sk_env"},
    STRIPE_SECRET_ARN            : {Absent, "arn:secret"},
    STRIPE_SECRET_JSON_KEY       : {Absent, "k1", "k2"},
    STRIPE_SECRET_PARAMETER_NAME : {Absent, "/stripe/key"},
    SNS_TOPIC_ARN                : {Absent, "arn:topic"},
    STRIPE_ACCOUNT_NAME          : {Absent, "Shop"},
    STRIPE_SANDBOX_ACCOUNT_ID    : {"acct_sb"},
    APP_ENV                      : {Absent, "production"},
    NOTIFICATION_LANGUAGE        : {Absent, "ja"} ]

(***************************************************************************)
(* JSON.parse on the secret strings of the model, and property access on   *)
(* its result.                                                             *)
(***************************************************************************)
NoFields == [k \in {} |-> ""]

JsonObject(fields) == [kind |-> "object", fields |-> fields]
JsonNull           == [kind |-> "null", fields |-> NoFields]
JsonString         == [kind |-> "string", fields |-> NoFields]
JsonSyntaxError    == [kind |-> "SyntaxError", fields |-> NoFields]

\* the SecretString values Secrets Manager may hold
SecretStrings ==
  { "sk_raw",
    "{}",
    "{\"k1\":\"sk_1\"}",
    "{\"k1\":\"sk_1\",\"k2\":\"sk_2\"}",
    "{\"k1\":\"\"}",
    "null",
    "\"sk_quoted\"" }

JSONParse(s) ==
  CASE s = "{}"                              -> JsonObject(NoFields)
    [] s = "{\"k1\":\"sk_1\"}"               -> JsonObject([k \in {"k1"} |-> "sk_1"])
    [] s = "{\"k1\":\"sk_1\",\"k2\":\"sk_2\"}" ->
         JsonObject([k \in {"k1", "k2"} |-> IF k = "k1" THEN "sk_1" ELSE "sk_2"])
    [] s = "{\"k1\":\"\"}"                   -> JsonObject([k \in {"k1"} |-> ""])
    [] s = "null"                            -> JsonNull
    [] s = "\"sk_quoted\""                   -> JsonString
    [] OTHER                                 -> JsonSyntaxError

\* secretObject[secretKey]; on null the access throws a TypeError
GetProperty(obj, key) ==
  IF obj.kind = "object" /\ key \in DOMAIN obj.fields
  THEN obj.fields[key] ELSE Absent

(***************************************************************************)
(* Answers of the two secret backends.                                     *)
(***************************************************************************)
BackendFailures == {MkError(<<"AccessDeniedException">>), NonErrorThrown}

NoThrown == MkError(<<>>)

SecretsManagerAnswers ==
  [raised : {TRUE}, thrown : BackendFailures, value : {Absent}]
  \cup [raised : {FALSE}, thrown : {NoThrown}, value : SecretStrings \cup {Absent, ""}]

\* value is response.Parameter?.Value
SsmAnswers ==
  [raised : {TRUE}, thrown : BackendFailures, value : {Absent}]
  \cup [raised : {FALSE}, thrown : {NoThrown}, value : {Absent, "", "sk_ssm"}]

(***************************************************************************)
(* getStripeSecretKey, lines 56-137.  Each part yields what the function   *)
(* does next: return a value, throw, or await a backend call.              *)
(***************************************************************************)
Return(v)     == [tag |-> "return", value |-> v, thrown |-> NoThrown, log |-> <<>>]
Throw(e)      == [tag |-> "throw", value |-> Absent, thrown |-> e, log |-> <<>>]
Await(client) == [tag |-> client, value |-> Absent, thrown |-> NoThrown, log |-> <<>>]

LogEntry(level, text, errs) == [level |-> level, text |-> text, err |-> errs]

\* the ssm branch sending its request to Secrets Manager
GetStripeSecretKeyBeginSsmToSecretsManager(e) ==
  LET secretSource == e.STRIPE_SECRET_SOURCE IN
  IF Falsy(secretSource)
  THEN Throw(MkError(<<"STRIPE_SECRET_SOURCE environment variable is not set">>))
  ELSE IF secretSource = "env"
  THEN IF Falsy(e.STRIPE_SECRET_KEY)
       THEN Throw(MkError(<<"STRIPE_SECRET_KEY environment variable is not set">>))
       ELSE Return(e.STRIPE_SECRET_KEY)
  ELSE IF secretSource = "secretsmanager"
  THEN IF Falsy(e.STRIPE_SECRET_ARN)
       THEN Throw(MkError(<<"STRIPE_SECRET_ARN environment variable is not set">>))
       ELSE Await("secretsmanager")
  ELSE IF secretSource = "ssm"
  THEN IF Falsy(e.STRIPE_SECRET_PARAMETER_NAME)
       THEN Throw(MkError(<<"STRIPE_SECRET_PARAMETER_NAME environment variable is not set">>))
       ELSE Await("secretsmanager")
  ELSE Throw(MkError(<<"Invalid STRIPE_SECRET_SOURCE: ", secretSource>>))

\* the final throw left out: an unrecognised source is served as ssm
GetStripeSecretKeyBeginDefaultSsm(e) ==
  LET secretSource == e.STRIPE_SECRET_SOURCE IN
  IF Falsy(secretSource)
  THEN Throw(MkError(<<"STRIPE_SECRET_SOURCE environment variable is not set">>))
  ELSE IF secretSource = "env"
  THEN IF Falsy(e.STRIPE_SECRET_KEY)
       THEN Throw(MkError(<<"STRIPE_SECRET_KEY environment variable is not set">>))
       ELSE Return(e.STRIPE_SECRET_KEY)
  ELSE IF secretSource = "secretsmanager"
  THEN IF Falsy(e.STRIPE_SECRET_ARN)
       THEN Throw(MkError(<<"STRIPE_SECRET_ARN environment variable is not set">>))
       ELSE Await("secretsmanager")
  ELSE IF Falsy(e.STRIPE_SECRET_PARAMETER_NAME)
       THEN Throw(MkError(<<"STRIPE_SECRET_PARAMETER_NAME environment variable is not set">>))
       ELSE Await("ssm")

\* lines 56-78 and 110-115, 136: up to the first await
GetStripeSecretKeyBegin(e) ==
  LET secretSource == e.STRIPE_SECRET_SOURCE IN
  IF Falsy(secretSource)
  THEN Throw(MkError(<<"STRIPE_SECRET_SOURCE environment variable is not set">>))
  ELSE IF secretSource = "env"
  THEN IF Falsy(e.STRIPE_SECRET_KEY)
       THEN Throw(MkError(<<"STRIPE_SECRET_KEY environment variable is not set">>))
       ELSE Return(e.STRIPE_SECRET_KEY)
  ELSE IF secretSource = "secretsmanager"
  THEN IF Falsy(e.STRIPE_SECRET_ARN)
       THEN Throw(MkError(<<"STRIPE_SECRET_ARN environment variable is not set">>))
       ELSE Await("secretsmanager")
  ELSE IF secretSource = "ssm"
  THEN IF Falsy(e.STRIPE_SECRET_PARAMETER_NAME)
       THEN Throw(MkError(<<"STRIPE_SECRET_PARAMETER_NAME environment variable is not set">>))
       ELSE Await("ssm")
  ELSE Throw(MkError(<<"Invalid STRIPE_SECRET_SOURCE: ", secretSource>>))

\* the JSON key ignored: the whole SecretString is returned
SecretsManagerTryWholeSecret(e, answer) ==
  IF answer.raised THEN Throw(answer.thrown)
  ELSE IF Falsy(answer.value) THEN Throw(MkError(<<"Secret value is empty">>))
  ELSE Return(answer.value)

\* lines 79-101: the try block once secretsManagerClient.send has settled
SecretsManagerTry(e, answer) ==
  IF answer.raised THEN Throw(answer.thrown)
  ELSE IF Falsy(answer.value) THEN Throw(MkError(<<"Secret value is empty">>))
  ELSE LET secretKey == e.STRIPE_SECRET_JSON_KEY IN
       IF ~Falsy(secretKey)
       THEN LET secretObject == JSONParse(answer.value) IN
            IF secretObject.kind = "SyntaxError"
            THEN Throw(MkError(<<"Unexpected token in JSON">>))
            ELSE IF secretObject.kind = "null"
            THEN Throw(MkError(<<"Cannot read properties of null">>))
            ELSE IF Falsy(GetProperty(secretObject, secretKey))
            THEN Throw(MkError(<<"Secret key \"", secretKey, "\" not found in secret">>))
            ELSE Return(GetProperty(secretObject, secretKey))
       ELSE Return(answer.value)

\* lines 102-107: the catch block wraps whatever the try block threw
SecretsManagerCatch(r) ==
  IF r.tag = "throw"
  THEN [ Throw(MkError(<<"Secrets Manager error: ">> \o ErrorMessageOrUnknown(r.thrown)))
         EXCEPT !.log = <<LogEntry("error",
                                   <<"Failed to retrieve secret from Secrets Manager:">>,
                                   <<r.thrown>>)>> ]
  ELSE r

GetStripeSecretKeyFromSecretsManager(e, answer) ==
  SecretsManagerCatch(SecretsManagerTry(e, answer))

\* the check of an empty parameter value left out
SsmTryNoEmptyCheck(answer) ==
  IF answer.raised THEN Throw(answer.thrown) ELSE Return(answer.value)

\* lines 117-129
SsmTry(answer) ==
  IF answer.raised THEN Throw(answer.thrown)
  ELSE IF Falsy(answer.value) THEN Throw(MkError(<<"Parameter value is empty">>))
  ELSE Return(answer.value)

\* lines 130-133
SsmCatch(r) ==
  IF r.tag = "throw"
  THEN [ Throw(MkError(<<"SSM error: ">> \o ErrorMessageOrUnknown(r.thrown)))
         EXCEPT !.log = <<LogEntry("error",
                                   <<"Failed to retrieve parameter from SSM:">>,
                                   <<r.thrown>>)>> ]
  ELSE r

GetStripeSecretKeyFromSsm(answer) == SsmCatch(SsmTry(answer))

(***************************************************************************)
(* Inbound events and the line items of the Stripe API.                    *)
(***************************************************************************)
\* the supported list with one type too many
targetEventDetailTypesWithCreated ==
  <<"checkout.session.async_payment_succeeded", "checkout.session.completed",
    "payment_intent.created">>

targetEventDetailTypes ==
  <<"checkout.session.async_payment_succeeded", "checkout.session.completed">>

DetailTypes ==
  {"checkout.session.async_payment_succeeded", "checkout.session.completed",
   "payment_intent.created"}

\* checkoutSession.payment_intent: a string, an expanded object, or null
PaymentIntents ==
  { [kind |-> "string", id |-> "pi_1"],
    [kind |-> "object", id |-> "pi_1"],
    [kind |-> "null", id |-> Absent] }

Events ==
  [ detailType     : DetailTypes,
    id             : {"cs_1"},
    payment_status : {"paid", "unpaid"},
    payment_intent : PaymentIntents ]

NoEvent ==
  [ detailType |-> Absent, id |-> Absent, payment_status |-> Absent,
    payment_intent |-> [kind |-> "null", id |-> Absent] ]

\* item.price?.product: an expanded product, a deleted product, an id, or nothing
ExpandedProduct == [kind |-> "product", name |-> "T-shirt"]
DeletedProduct  == [kind |-> "deleted", name |-> Absent]
ProductId       == [kind |-> "id", name |-> Absent]
NoProduct       == [kind |-> "none", name |-> Absent]

LineItem(description, product) ==
  [ amount_total |-> 1000, amount_subtotal |-> 900, description |-> description,
    quantity |-> 2, product |-> product ]

ItemPool ==
  { LineItem("T-shirt", ExpandedProduct), LineItem("Mug", DeletedProduct),
    LineItem("Cap", ProductId), LineItem("Pen", NoProduct) }

LineItemLists == UNION {[1..n -> ItemPool] : n \in 0..MaxItems}

ApiFailures == {MkError(<<"ServiceUnavailable">>), NonErrorThrown}

StripeAnswers ==
  [raised : {TRUE}, thrown : ApiFailures, data : {<<>>}]
  \cup [raised : {FALSE}, thrown : {NoThrown}, data : LineItemLists]

SnsAnswers ==
  [raised : {TRUE}, thrown : ApiFailures] \cup [raised : {FALSE}, thrown : {NoThrown}]

\* getNotificationMessages whose Japanese dictionary keeps the English link text
getNotificationMessagesMixed(language) ==
  IF language = "ja"
  THEN [ title |-> "[ja] Atarashii kessai ga hassei shimashita",
         accountMessage |-> "[ja] akaunto nite kessai ga hassei shimashita.",
         orderDetail |-> "*Order detail*",
         dashboardLink |-> "View order in Dashboard",
         eventType |-> "EventType:",
         sandboxId |-> "Sandbox ID:",
         liveAccount |-> "Live account" ]
  ELSE [ title |-> "New payment received",
         accountMessage |-> "account",
         orderDetail |-> "*Order detail*",
         dashboardLink |-> "View order in Dashboard",
         eventType |-> "EventType:",
         sandboxId |-> "Sandbox ID:",
         liveAccount |-> "Live account" ]

(***************************************************************************)
(* getNotificationMessages, lines 142-165.  The Japanese texts are written  *)
(* in Latin letters, marked [ja].                                          *)
(***************************************************************************)
getNotificationMessages(language) ==
  IF language = "ja"
  THEN [ title |-> "[ja] Atarashii kessai ga hassei shimashita",
         accountMessage |-> "[ja] akaunto nite kessai ga hassei shimashita.",
         orderDetail |-> "*Order detail*",
         dashboardLink |-> "[ja] de chuumon wo kakunin suru",
         eventType |-> "EventType:",
         sandboxId |-> "Sandbox ID:",
         liveAccount |-> "Live account" ]
  ELSE [ title |-> "New payment received",
         accountMessage |-> "account",
         orderDetail |-> "*Order detail*",
         dashboardLink |-> "View order in Dashboard",
         eventType |-> "EventType:",
         sandboxId |-> "Sandbox ID:",
         liveAccount |-> "Live account" ]

(***************************************************************************)
(* The notification message, lines 190-192 and 218-272.                    *)
(***************************************************************************)
\* a value interpolated in a template literal
Str(v) == IF v = Absent THEN "undefined" ELSE v

Truthy(v) == ~Falsy(v)

\* a template literal: its non-empty pieces
Template(pieces) == SelectSeq(pieces, LAMBDA p : p # "")

\* IsDevMode true only for the value "development"
IsDevModeOnlyDevelopment(e) == e.APP_ENV = "development"

IsDevMode(e) == e.APP_ENV # "production"

\* NotificationLanguage with "ja" as the default
NotificationLanguageDefaultJa(e) ==
  IF Falsy(e.NOTIFICATION_LANGUAGE) THEN "ja" ELSE e.NOTIFICATION_LANGUAGE

NotificationLanguage(e) ==
  IF Falsy(e.NOTIFICATION_LANGUAGE) THEN "en" ELSE e.NOTIFICATION_LANGUAGE

\* PaymentIntentId that reads only the plain string
PaymentIntentIdStringOnly(checkoutSession) ==
  IF checkoutSession.payment_intent.kind = "string"
  THEN checkoutSession.payment_intent.id
  ELSE Absent

\* lines 218-221
PaymentIntentId(checkoutSession) ==
  IF checkoutSession.payment_intent.kind = "string"
  THEN checkoutSession.payment_intent.id
  ELSE IF checkoutSession.payment_intent.kind = "object"
  THEN checkoutSession.payment_intent.id
  ELSE Absent

\* DashboardUrl without filter(Boolean)
DashboardUrlNoFilter(e, checkoutSession) ==
  Join(<< "https://dashboard.stripe.com",
          IF e.APP_ENV # "production" THEN "test" ELSE "null",
          "payments",
          Str(PaymentIntentId(checkoutSession)) >>,
       "/")

\* lines 223-230
DashboardUrl(e, checkoutSession) ==
  Join(SelectSeq(<< "https://dashboard.stripe.com",
                    IF e.APP_ENV # "production" THEN "test" ELSE Absent,
                    "payments",
                    PaymentIntentId(checkoutSession) >>,
                 Truthy),
       "/")

\* ProductName without the test of product.deleted
ProductNameIgnoresDeleted(e, item) ==
  IF item.product.kind \in {"product", "deleted"}
  THEN Str(item.product.name)
  ELSE IF NotificationLanguage(e) = "ja" THEN "[ja] Fumei na shouhin" ELSE "Unknown Product"

\* lines 249-253
ProductName(e, item) ==
  IF item.product.kind = "product"
  THEN item.product.name
  ELSE IF NotificationLanguage(e) = "ja" THEN "[ja] Fumei na shouhin" ELSE "Unknown Product"

\* lines 254-260: the five lines of one item
ItemLines(e, item) ==
  << <<"- Amount total: ", ToString(item.amount_total)>>,
     <<"- Amount subtotal: ", ToString(item.amount_subtotal)>>,
     <<"- Description: ", item.description>>,
     <<"- Product name: ", ProductName(e, item)>>,
     <<"- Quantity: ", ToString(item.quantity)>> >>

RECURSIVE ItemBlocks(_, _)
\* lines 247-262: lineItems.map(...).join("\n"), as lines; no item gives ""
ItemBlocks(e, lineItems) ==
  IF Len(lineItems) = 0 THEN << <<>> >>
  ELSE IF Len(lineItems) = 1 THEN ItemLines(e, lineItems[1])
  ELSE ItemLines(e, lineItems[1]) \o ItemBlocks(e, Tail(lineItems))

\* Description with the items in reverse order
DescriptionItemsReversed(e, checkoutSession, lineItems) ==
  LET messages == getNotificationMessages(NotificationLanguage(e)) IN
  << IF NotificationLanguage(e) = "en"
     THEN Template(<<"A payment has been received on the ", Str(e.STRIPE_ACCOUNT_NAME),
                     " ", messages.accountMessage, ".">>)
     ELSE Template(<<Str(e.STRIPE_ACCOUNT_NAME), messages.accountMessage>>),
     Template(<<"- *Checkout Session ID*: ", checkoutSession.id>>),
     Template(<<"- *Payment Intent ID*: ", Str(PaymentIntentId(checkoutSession))>>),
     <<>>,
     <<messages.orderDetail>> >>
  \o ItemBlocks(e, [i \in 1..Len(lineItems) |-> lineItems[Len(lineItems) + 1 - i]])

\* lines 239-263: the description, as its lines
Description(e, checkoutSession, lineItems) ==
  LET messages == getNotificationMessages(NotificationLanguage(e)) IN
  << IF NotificationLanguage(e) = "en"
     THEN Template(<<"A payment has been received on the ", Str(e.STRIPE_ACCOUNT_NAME),
                     " ", messages.accountMessage, ".">>)
     ELSE Template(<<Str(e.STRIPE_ACCOUNT_NAME), messages.accountMessage>>),
     Template(<<"- *Checkout Session ID*: ", checkoutSession.id>>),
     Template(<<"- *Payment Intent ID*: ", Str(PaymentIntentId(checkoutSession))>>),
     <<>>,
     <<messages.orderDetail>> >>
  \o ItemBlocks(e, lineItems)

\* lines 233-272
SlackNotificationMessage(e, ev, lineItems) ==
  LET messages == getNotificationMessages(NotificationLanguage(e)) IN
  [ version |-> "1.0",
    source  |-> "custom",
    content |->
      [ textType    |-> "client-markdown",
        title       |-> Template(<<IF IsDevMode(e) THEN "[Test] " ELSE "", messages.title>>),
        description |-> Description(e, ev, lineItems),
        nextSteps   |-> << Template(<<"<">> \o DashboardUrl(e, ev)
                                    \o <<"|Dashboard>", messages.dashboardLink>>) >>,
        keywords    |-> << Template(<<messages.eventType, " ", ev.detailType>>),
                           IF IsDevMode(e)
                           THEN Template(<<messages.sandboxId, " ",
                                           Str(e.STRIPE_SANDBOX_ACCOUNT_ID)>>)
                           ELSE <<messages.liveAccount>> >> ] ]

RECURSIVE Flatten(_, _)
\* the pieces of a list of texts, sep between consecutive texts
Flatten(texts, sep) ==
  IF Len(texts) = 0 THEN <<>>
  ELSE IF Len(texts) = 1 THEN texts[1]
  ELSE texts[1] \o <<sep>> \o Flatten(Tail(texts), sep)

\* a JSON string literal
Quoted(text) == <<"\"">> \o text \o <<"\"">>

\* a JSON array of string literals
RECURSIVE QuotedList(_)
QuotedList(texts) ==
  IF Len(texts) = 0 THEN <<>>
  ELSE IF Len(texts) = 1 THEN Quoted(texts[1])
  ELSE Quoted(texts[1]) \o <<",">> \o QuotedList(Tail(texts))

\* line 280: JSON.stringify of the message; a line break of the description
\* becomes the escape \n
JSONStringify(m) ==
  <<"{", "\"version\":">> \o Quoted(<<m.version>>)
  \o <<",", "\"source\":">> \o Quoted(<<m.source>>)
  \o <<",", "\"content\":", "{", "\"textType\":">> \o Quoted(<<m.content.textType>>)
  \o <<",", "\"title\":">> \o Quoted(m.content.title)
  \o <<",", "\"description\":">> \o Quoted(Flatten(m.content.description, "\\n"))
  \o <<",", "\"nextSteps\":", "[">> \o QuotedList(m.content.nextSteps) \o <<"]">>
  \o <<",", "\"keywords\":", "[">> \o QuotedList(m.content.keywords) \o <<"]">>
  \o <<"}", "}">>

\* lines 279-282
PublishCommand(e, m) == [Message |-> JSONStringify(m), TopicArn |-> e.SNS_TOPIC_ARN]

(***************************************************************************)
(* The handler, lines 172-296.                                             *)
(***************************************************************************)
requiredEnvVars == <<"STRIPE_SECRET_SOURCE", "SNS_TOPIC_ARN", "STRIPE_ACCOUNT_NAME">>

\* the missing variables cut down to the first one
MissingEnvVarsFirstOnly(e) ==
  SubSeq(SelectSeq(requiredEnvVars, LAMBDA key : Falsy(e[key])), 1, 1)

\* line 182
MissingEnvVars(e) == SelectSeq(requiredEnvVars, LAMBDA key : Falsy(e[key]))

\* line 184
MissingEnvVarsError(e) ==
  MkError(<<"Missing required environment variables: ">> \o Join(MissingEnvVars(e), ", "))

\* Fail whose outer catch logs the error and returns
FailSwallows(e, innerLogs) ==
  /\ logs' = logs \o innerLogs
               \o <<LogEntry("error", <<"Error processing Stripe event:">>, <<e>>)>>
  /\ outcome' = "returned"
  /\ error' = e
  /\ pc' = "done"

\* lines 291-295: the outer catch logs the error and throws it again
Fail(e, innerLogs) ==
  /\ logs' = logs \o innerLogs
               \o <<LogEntry("error", <<"Error processing Stripe event:">>, <<e>>)>>
  /\ outcome' = "threw"
  /\ error' = e
  /\ pc' = "done"

\* a return of the handler without error
Succeed(entry) ==
  /\ logs' = Append(logs, entry)
  /\ outcome' = "returned"
  /\ pc' = "done"
  /\ UNCHANGED error

\* no invocation has started
HandlerAtRest ==
  /\ event = NoEvent
  /\ calls = <<>>
  /\ secretResponse = <<>>
  /\ stripeSecretKey = Absent
  /\ lineItemsResponse = <<>>
  /\ slackNotificationMessage = <<>>
  /\ topic = <<>>
  /\ logs = <<>>
  /\ outcome = "none"
  /\ error = NoThrown
  /\ previous = <<>>
  /\ suspended = <<>>

\* no construct in the picture: the function runs in a given environment
NoProps == [k \in {} |-> Absent]

NoConstruct ==
  /\ props = NoProps
  /\ lambdaFunction = <<>>
  /\ rolePolicy = <<>>
  /\ constructorError = <<>>

Init ==
  /\ env \in PipelineEnvs
  /\ pc = "idle"
  /\ NoConstruct
  /\ HandlerAtRest

\* the platform invokes the handler with an event
Invoke ==
  /\ pc = "idle"
  /\ UNCHANGED cdkVars
  /\ UNCHANGED platformVars
  /\ event' \in Events
  /\ pc' = "received"
  /\ UNCHANGED <<env, calls, lineItemsResponse, secretResponse, stripeSecretKey, slackNotificationMessage,
                 topic, logs, outcome, error>>

\* lines 174-178
TypeFilter ==
  /\ pc = "received"
  /\ UNCHANGED cdkVars
  /\ UNCHANGED platformVars
  /\ IF ~Includes(targetEventDetailTypes, event.detailType)
     THEN Succeed(LogEntry("log", <<"Skipping unsupported event type: ", event.detailType>>,
                           <<>>))
     ELSE /\ pc' = "typeFiltered"
          /\ UNCHANGED <<logs, outcome, error>>
  /\ UNCHANGED <<env, event, calls, lineItemsResponse, secretResponse, stripeSecretKey,
                 slackNotificationMessage, topic>>

\* lines 180-185
ValidateEnvironment ==
  /\ pc = "typeFiltered"
  /\ UNCHANGED cdkVars
  /\ UNCHANGED platformVars
  /\ IF Len(MissingEnvVars(env)) > 0
     THEN Fail(MissingEnvVarsError(env), <<>>)
     ELSE /\ pc' = "configValidated"
          /\ UNCHANGED <<logs, outcome, error>>
  /\ UNCHANGED <<env, event, calls, lineItemsResponse, secretResponse, stripeSecretKey,
                 slackNotificationMessage, topic>>

\* line 188 with lines 56-78, 110-123, 136: getStripeSecretKey up to its await
\* ResolveSecret that reuses the key of the invocation before
ResolveSecretCached ==
  /\ pc = "configValidated"
  /\ UNCHANGED cdkVars
  /\ UNCHANGED platformVars
  /\ LET r == IF previous # <<>> /\ previous[1].stripeSecretKey # Absent
              THEN Return(previous[1].stripeSecretKey)
              ELSE GetStripeSecretKeyBegin(env) IN
     CASE r.tag = "throw" ->
            /\ Fail(r.thrown, r.log)
            /\ UNCHANGED <<calls, stripeSecretKey>>
       [] r.tag = "return" ->
            /\ stripeSecretKey' = r.value
            /\ pc' = "secretResolved"
            /\ UNCHANGED <<calls, logs, outcome, error>>
       [] r.tag = "secretsmanager" ->
            /\ calls' = Append(calls, "secretsmanager")
            /\ pc' = "awaitSecretsManager"
            /\ UNCHANGED <<stripeSecretKey, logs, outcome, error>>
       [] r.tag = "ssm" ->
            /\ calls' = Append(calls, "ssm")
            /\ pc' = "awaitSsm"
            /\ UNCHANGED <<stripeSecretKey, logs, outcome, error>>
  /\ UNCHANGED <<env, event, lineItemsResponse, secretResponse, slackNotificationMessage, topic>>

ResolveSecret ==
  /\ pc = "configValidated"
  /\ UNCHANGED cdkVars
  /\ UNCHANGED platformVars
  /\ LET r == GetStripeSecretKeyBegin(env) IN
     CASE r.tag = "throw" ->
            /\ Fail(r.thrown, r.log)
            /\ UNCHANGED <<calls, stripeSecretKey>>
       [] r.tag = "return" ->
            /\ stripeSecretKey' = r.value
            /\ pc' = "secretResolved"
            /\ UNCHANGED <<calls, logs, outcome, error>>
       [] r.tag = "secretsmanager" ->
            /\ calls' = Append(calls, "secretsmanager")
            /\ pc' = "awaitSecretsManager"
            /\ UNCHANGED <<stripeSecretKey, logs, outcome, error>>
       [] r.tag = "ssm" ->
            /\ calls' = Append(calls, "ssm")
            /\ pc' = "awaitSsm"
            /\ UNCHANGED <<stripeSecretKey, logs, outcome, error>>
  /\ UNCHANGED <<env, event, lineItemsResponse, secretResponse, slackNotificationMessage, topic>>

\* SecretSettles that keeps the resolved key in process.env
SecretSettlesKeepsKeyInEnv(answer, r) ==
  /\ secretResponse' = <<answer>>
  /\ IF r.tag = "throw"
     THEN /\ Fail(r.thrown, r.log)
          /\ UNCHANGED <<stripeSecretKey, env>>
     ELSE /\ stripeSecretKey' = r.value
          /\ env' = [env EXCEPT !.STRIPE_SECRET_KEY = r.value]
          /\ pc' = "secretResolved"
          /\ UNCHANGED <<logs, outcome, error>>
  /\ UNCHANGED <<event, calls, lineItemsResponse, slackNotificationMessage, topic>>

\* the end of getStripeSecretKey: a value for the handler, or an error
SecretSettles(answer, r) ==
  /\ secretResponse' = <<answer>>
  /\ IF r.tag = "throw"
     THEN /\ Fail(r.thrown, r.log)
          /\ UNCHANGED stripeSecretKey
     ELSE /\ stripeSecretKey' = r.value
          /\ pc' = "secretResolved"
          /\ UNCHANGED <<logs, outcome, error>>
  /\ UNCHANGED <<env, event, calls, lineItemsResponse, slackNotificationMessage, topic>>

\* lines 80-107: the answer of Secrets Manager arrives
SecretsManagerSettles ==
  /\ pc = "awaitSecretsManager"
  /\ UNCHANGED cdkVars
  /\ UNCHANGED platformVars
  /\ \E answer \in SecretsManagerAnswers :
       SecretSettles(answer, GetStripeSecretKeyFromSecretsManager(env, answer))

\* lines 118-133: the answer of SSM arrives
SsmSettles ==
  /\ pc = "awaitSsm"
  /\ UNCHANGED cdkVars
  /\ UNCHANGED platformVars
  /\ \E answer \in SsmAnswers : SecretSettles(answer, GetStripeSecretKeyFromSsm(answer))

\* the unpaid filter left out: listLineItems is called for every session
StatusFilterNoSkip ==
  /\ pc = "secretResolved"
  /\ UNCHANGED cdkVars
  /\ UNCHANGED platformVars
  /\ calls' = Append(calls, "stripe")
  /\ pc' = "awaitListLineItems"
  /\ UNCHANGED <<env, event, lineItemsResponse, secretResponse, stripeSecretKey, slackNotificationMessage,
                 topic, logs, outcome, error>>

\* lines 190-209: the unpaid filter, then the call of listLineItems
StatusFilter ==
  /\ pc = "secretResolved"
  /\ UNCHANGED cdkVars
  /\ UNCHANGED platformVars
  /\ IF event.payment_status = "unpaid"
     THEN /\ Succeed(LogEntry("log", <<"Skipping unpaid checkout session: ", event.id>>,
                              <<>>))
          /\ UNCHANGED calls
     ELSE /\ calls' = Append(calls, "stripe")
          /\ pc' = "awaitListLineItems"
          /\ UNCHANGED <<logs, outcome, error>>
  /\ UNCHANGED <<env, event, lineItemsResponse, secretResponse, stripeSecretKey, slackNotificationMessage,
                 topic>>

\* a failure of listLineItems swallowed: the message is published without items
ListLineItemsSettlesSwallow ==
  /\ pc = "awaitListLineItems"
  /\ UNCHANGED cdkVars
  /\ UNCHANGED platformVars
  /\ \E answer \in StripeAnswers :
       /\ lineItemsResponse' = <<answer>>
       /\ slackNotificationMessage' =
            <<SlackNotificationMessage(env, event, answer.data)>>
       /\ calls' = Append(calls, "sns")
       /\ pc' = "awaitPublish"
       /\ UNCHANGED <<logs, outcome, error>>
  /\ UNCHANGED <<env, event, secretResponse, stripeSecretKey, topic>>

\* lines 210-283: the answer of listLineItems arrives; on success the message is
\* built and the publish call is made
ListLineItemsSettles ==
  /\ pc = "awaitListLineItems"
  /\ UNCHANGED cdkVars
  /\ UNCHANGED platformVars
  /\ \E answer \in StripeAnswers :
       /\ lineItemsResponse' = <<answer>>
       /\ IF answer.raised
          THEN /\ Fail(MkError(<<"Stripe API error: ">> \o ErrorMessageOrUnknown(answer.thrown)),
                       <<LogEntry("error",
                                  <<"Failed to fetch line items for session ", event.id, ":">>,
                                  <<answer.thrown>>)>>)
               /\ UNCHANGED <<calls, slackNotificationMessage>>
          ELSE /\ slackNotificationMessage' =
                    <<SlackNotificationMessage(env, event, answer.data)>>
               /\ calls' = Append(calls, "sns")
               /\ pc' = "awaitPublish"
               /\ UNCHANGED <<logs, outcome, error>>
  /\ UNCHANGED <<env, event, secretResponse, stripeSecretKey, topic>>

\* PublishSettles that sends the publish again when it fails
PublishSettlesRetries ==
  /\ pc = "awaitPublish"
  /\ UNCHANGED cdkVars
  /\ UNCHANGED platformVars
  /\ \E answer \in SnsAnswers :
       IF answer.raised
       THEN /\ calls' = Append(calls, "sns")
            /\ UNCHANGED <<topic, logs, outcome, error, pc>>
       ELSE /\ topic' = Append(topic, PublishCommand(env, slackNotificationMessage[1]))
            /\ Succeed(LogEntry("log",
                                <<"Successfully sent notification for checkout session: ",
                                  event.id>>,
                                <<>>))
            /\ UNCHANGED calls
  /\ UNCHANGED <<env, event, lineItemsResponse, secretResponse, stripeSecretKey,
                 slackNotificationMessage>>

\* PublishSettles that logs a failed publish and returns
PublishSettlesSwallow ==
  /\ pc = "awaitPublish"
  /\ UNCHANGED cdkVars
  /\ UNCHANGED platformVars
  /\ \E answer \in SnsAnswers :
       IF answer.raised
       THEN /\ Succeed(LogEntry("error", <<"Failed to publish to SNS:">>, <<answer.thrown>>))
            /\ UNCHANGED topic
       ELSE /\ topic' = Append(topic, PublishCommand(env, slackNotificationMessage[1]))
            /\ Succeed(LogEntry("log",
                                <<"Successfully sent notification for checkout session: ",
                                  event.id>>,
                                <<>>))
  /\ UNCHANGED <<env, event, calls, lineItemsResponse, secretResponse, stripeSecretKey,
                 slackNotificationMessage>>

\* lines 278-290: the answer of the SNS publish arrives
PublishSettles ==
  /\ pc = "awaitPublish"
  /\ UNCHANGED cdkVars
  /\ UNCHANGED platformVars
  /\ \E answer \in SnsAnswers :
       IF answer.raised
       THEN /\ Fail(MkError(<<"SNS publish error: ">> \o ErrorMessageOrUnknown(answer.thrown)),
                    <<LogEntry("error", <<"Failed to publish to SNS:">>, <<answer.thrown>>)>>)
            /\ UNCHANGED topic
       ELSE /\ topic' = Append(topic, PublishCommand(env, slackNotificationMessage[1]))
            /\ Succeed(LogEntry("log",
                                <<"Successfully sent notification for checkout session: ",
                                  event.id>>,
                                <<>>))
  /\ UNCHANGED <<env, event, calls, lineItemsResponse, secretResponse, stripeSecretKey,
                 slackNotificationMessage>>

Next ==
  \/ Invoke
  \/ TypeFilter
  \/ ValidateEnvironment
  \/ ResolveSecret
  \/ SecretsManagerSettles
  \/ SsmSettles
  \/ StatusFilter
  \/ ListLineItemsSettles
  \/ PublishSettles

Spec == Init /\ [][Next]_vars

(***************************************************************************)
(* The handler in a well-configured environment, for the properties of the *)
(* notification message.                                                   *)
(***************************************************************************)
RenderEnvs ==
  [ STRIPE_SECRET_SOURCE         : {"env", "secretsmanager", "ssm"},
    STRIPE_SECRET_KEY            : {"sk_env"},
    STRIPE_SECRET_ARN            : {"arn:secret"},
    STRIPE_SECRET_JSON_KEY       : {Absent},
    STRIPE_SECRET_PARAMETER_NAME : {"/stripe/key"},
    SNS_TOPIC_ARN                : {"arn:topic"},
    STRIPE_ACCOUNT_NAME          : {"Shop"},
    STRIPE_SANDBOX_ACCOUNT_ID    : {Absent, "acct_sb"},
    APP_ENV                      : {Absent, "production", "development"},
    NOTIFICATION_LANGUAGE        : {Absent, "en", "ja", "fr"} ]

InitRender ==
  /\ env \in RenderEnvs
  /\ pc = "idle"
  /\ NoConstruct
  /\ HandlerAtRest

SpecRender == InitRender /\ [][Next]_vars

(***************************************************************************)
(* The StripeCheckoutHandler construct,                                    *)
(* src/lib/stripe-notifications-stack.ts lines 96-192.  An object of       *)
(* JavaScript is the function from its keys to their values; an optional   *)
(* object property is <<>> when undefined and <<object>> when given.       *)
(***************************************************************************)
EmptyObject == [k \in {} |-> Absent]

\* {...a, ...b}
Spread(a, b) ==
  [k \in (DOMAIN a) \cup (DOMAIN b) |-> IF k \in DOMAIN b THEN b[k] ELSE a[k]]

\* lambdaOptions as callers may give it; no lambdaOptions spreads as {}
LambdaOptionsSet ==
  { EmptyObject,
    [timeout |-> 60, memorySize |-> 512],
    [environment |-> [LOG_LEVEL |-> "debug", STRIPE_SECRET_ARN |-> "arn:other",
                      STRIPE_SECRET_PARAMETER_NAME |-> "/other"]],
    [entry |-> "other.ts", handler |-> "main", runtime |-> "nodejs18.x",
     environment |-> [LOG_LEVEL |-> "debug", APP_ENV |-> "staging",
                      SNS_TOPIC_ARN |-> "arn:other", STRIPE_ACCOUNT_NAME |-> "Other",
                      STRIPE_SANDBOX_ACCOUNT_ID |-> "acct_other",
                      NOTIFICATION_LANGUAGE |-> "fr", STRIPE_SECRET_SOURCE |-> "vault",
                      STRIPE_SECRET_KEY |-> "sk_other"]] }

PropsSet ==
  [ environment : {"production", "dev"},
    snsTopicArn : {"arn:topic", ""},
    stripeSecretKey : {Absent, "", "sk_env"},
    stripeSecretKeyFromSecretsManager :
      { <<>>, <<[secretArn |-> "arn:secret", secretKey |-> Absent]>>,
        <<[secretArn |-> "arn:secret", secretKey |-> "k1"]>>,
        <<[secretArn |-> "", secretKey |-> Absent]>> },
    stripeSecretKeyFromSsmParameter :
      { <<>>, <<[parameterName |-> "/stripe/key"]>>,
        <<[parameterName |-> "stripe/key"]>> },
    stripeAccountName : {"Shop"},
    stripeSandboxAccountId : {Absent, "acct_sb"},
    notificationLanguage : {Absent, "ja", "en"},
    lambdaOptions : LambdaOptionsSet ]

\* Boolean(props[option])
OptionGiven(p, option) ==
  IF option = "stripeSecretKey" THEN Truthy(p.stripeSecretKey) ELSE p[option] # <<>>

\* lines 100-104
SecretKeyOptions(p) ==
  SelectSeq(<<"stripeSecretKey", "stripeSecretKeyFromSecretsManager",
              "stripeSecretKeyFromSsmParameter">>,
            LAMBDA option : OptionGiven(p, option))

\* SecretKeyOptionsError without the check of lines 113-118
SecretKeyOptionsErrorNoneOnly(p) ==
  IF Len(SecretKeyOptions(p)) = 0
  THEN <<MkError(<<"Please specify one of stripeSecretKey, ",
                   "stripeSecretKeyFromSecretsManager, or ",
                   "stripeSecretKeyFromSsmParameter">>)>>
  ELSE <<>>

\* lines 106-118: the error the constructor throws, if any
SecretKeyOptionsError(p) ==
  IF Len(SecretKeyOptions(p)) = 0
  THEN <<MkError(<<"Please specify one of stripeSecretKey, ",
                   "stripeSecretKeyFromSecretsManager, or ",
                   "stripeSecretKeyFromSsmParameter">>)>>
  ELSE IF Len(SecretKeyOptions(p)) > 1
  THEN <<MkError(<<"Cannot specify stripeSecretKey, ",
                   "stripeSecretKeyFromSecretsManager, and ",
                   "stripeSecretKeyFromSsmParameter at the same time. ",
                   "Please choose one.">>)>>
  ELSE <<>>

\* SecretEnvironment that leaves STRIPE_SECRET_SOURCE out
SecretEnvironmentNoSource(p) ==
  IF Truthy(p.stripeSecretKey)
  THEN [STRIPE_SECRET_KEY |-> p.stripeSecretKey]
  ELSE IF p.stripeSecretKeyFromSecretsManager # <<>>
  THEN [STRIPE_SECRET_ARN |-> p.stripeSecretKeyFromSecretsManager[1].secretArn]
  ELSE IF p.stripeSecretKeyFromSsmParameter # <<>>
  THEN [STRIPE_SECRET_PARAMETER_NAME |-> p.stripeSecretKeyFromSsmParameter[1].parameterName]
  ELSE EmptyObject

\* lines 129-143
SecretEnvironment(p) ==
  IF Truthy(p.stripeSecretKey)
  THEN [STRIPE_SECRET_KEY |-> p.stripeSecretKey, STRIPE_SECRET_SOURCE |-> "env"]
  ELSE IF p.stripeSecretKeyFromSecretsManager # <<>>
  THEN Spread([ STRIPE_SECRET_SOURCE |-> "secretsmanager",
                STRIPE_SECRET_ARN |-> p.stripeSecretKeyFromSecretsManager[1].secretArn ],
              IF Truthy(p.stripeSecretKeyFromSecretsManager[1].secretKey)
              THEN [STRIPE_SECRET_JSON_KEY |->
                      p.stripeSecretKeyFromSecretsManager[1].secretKey]
              ELSE EmptyObject)
  ELSE IF p.stripeSecretKeyFromSsmParameter # <<>>
  THEN [ STRIPE_SECRET_SOURCE |-> "ssm",
         STRIPE_SECRET_PARAMETER_NAME |-> p.stripeSecretKeyFromSsmParameter[1].parameterName ]
  ELSE EmptyObject

\* ConstructEnvironment with "ja" as the default language
ConstructEnvironmentDefaultJa(p) ==
  Spread([ APP_ENV |-> p.environment,
           SNS_TOPIC_ARN |-> p.snsTopicArn,
           STRIPE_ACCOUNT_NAME |-> p.stripeAccountName,
           STRIPE_SANDBOX_ACCOUNT_ID |->
             IF Falsy(p.stripeSandboxAccountId) THEN "" ELSE p.stripeSandboxAccountId,
           NOTIFICATION_LANGUAGE |->
             IF Falsy(p.notificationLanguage) THEN "ja" ELSE p.notificationLanguage ],
         SecretEnvironment(p))

\* lines 120-143: the variables the construct sets
ConstructEnvironment(p) ==
  Spread([ APP_ENV |-> p.environment,
           SNS_TOPIC_ARN |-> p.snsTopicArn,
           STRIPE_ACCOUNT_NAME |-> p.stripeAccountName,
           STRIPE_SANDBOX_ACCOUNT_ID |->
             IF Falsy(p.stripeSandboxAccountId) THEN "" ELSE p.stripeSandboxAccountId,
           NOTIFICATION_LANGUAGE |->
             IF Falsy(p.notificationLanguage) THEN "en" ELSE p.notificationLanguage ],
         SecretEnvironment(p))

\* props.lambdaOptions?.environment
LambdaOptionsEnvironment(p) ==
  IF "environment" \in DOMAIN p.lambdaOptions
  THEN p.lambdaOptions.environment ELSE EmptyObject

DefaultTimeoutSeconds == 30

\* NodejsFunctionProps with lambdaOptions spread last
NodejsFunctionPropsOptionsLast(p) ==
  Spread(Spread([timeout |-> DefaultTimeoutSeconds],
                [ entry |-> "../lambda/checkout-session.ts",
                  handler |-> "handler",
                  runtime |-> "nodejs20.x",
                  environment |-> Spread(ConstructEnvironment(p),
                                         LambdaOptionsEnvironment(p)) ]),
         p.lambdaOptions)

\* lines 145-159: the properties NodejsFunction is created with
NodejsFunctionProps(p) ==
  Spread(Spread([timeout |-> DefaultTimeoutSeconds], p.lambdaOptions),
         [ entry |-> "../lambda/checkout-session.ts",
           handler |-> "handler",
           runtime |-> "nodejs20.x",
           environment |-> Spread(LambdaOptionsEnvironment(p), ConstructEnvironment(p)) ])

\* parameterName.replace(/^\//, "") on the parameter names of the model
StripLeadingSlash(name) ==
  CASE name = "/stripe/key" -> "stripe/key"
    [] name = "/other"      -> "other"
    [] OTHER                -> name

PolicyStatement(actions, resources) == [actions |-> actions, resources |-> resources]

\* RoleStatements granting the Secrets Manager read whatever the source
RoleStatementsAlwaysSecretsManager(p) ==
  <<PolicyStatement(<<"sns:Publish">>, << <<p.snsTopicArn>> >>),
    PolicyStatement(<<"secretsmanager:GetSecretValue">>, << <<"*">> >>)>>
  \o (IF p.stripeSecretKeyFromSsmParameter # <<>>
      THEN <<PolicyStatement(
               <<"ssm:GetParameter">>,
               << <<"arn:aws:ssm:", "${stack.region}", ":", "${stack.account}",
                    ":parameter/",
                    StripLeadingSlash(p.stripeSecretKeyFromSsmParameter[1].parameterName)>> >>)>>
      ELSE <<>>)

\* lines 161-191: the statements added to the role, in order
RoleStatements(p) ==
  <<PolicyStatement(<<"sns:Publish">>, << <<p.snsTopicArn>> >>)>>
  \o (IF p.stripeSecretKeyFromSecretsManager # <<>>
      THEN <<PolicyStatement(<<"secretsmanager:GetSecretValue">>,
                             << <<p.stripeSecretKeyFromSecretsManager[1].secretArn>> >>)>>
      ELSE <<>>)
  \o (IF p.stripeSecretKeyFromSsmParameter # <<>>
      THEN <<PolicyStatement(
               <<"ssm:GetParameter">>,
               << <<"arn:aws:ssm:", "${stack.region}", ":", "${stack.account}",
                    ":parameter/",
                    StripLeadingSlash(p.stripeSecretKeyFromSsmParameter[1].parameterName)>> >>)>>
      ELSE <<>>)

EnvNames ==
  { "STRIPE_SECRET_SOURCE", "STRIPE_SECRET_KEY", "STRIPE_SECRET_ARN",
    "STRIPE_SECRET_JSON_KEY", "STRIPE_SECRET_PARAMETER_NAME", "SNS_TOPIC_ARN",
    "STRIPE_ACCOUNT_NAME", "STRIPE_SANDBOX_ACCOUNT_ID", "APP_ENV",
    "NOTIFICATION_LANGUAGE" }

\* process.env of the function, as far as the handler reads it
ProcessEnv(environment) ==
  [k \in EnvNames |-> IF k \in DOMAIN environment THEN environment[k] ELSE Absent]

InitConstruct ==
  /\ props \in PropsSet
  /\ lambdaFunction = <<>>
  /\ rolePolicy = <<>>
  /\ constructorError = <<>>
  /\ env = ProcessEnv(EmptyObject)
  /\ pc = "undeployed"
  /\ HandlerAtRest

\* lines 96-192: new StripeCheckoutHandler(scope, id, props); the function it
\* creates then runs with the environment it was given
Construct ==
  /\ pc = "undeployed"
  /\ IF SecretKeyOptionsError(props) # <<>>
     THEN /\ constructorError' = SecretKeyOptionsError(props)
          /\ pc' = "rejected"
          /\ UNCHANGED <<lambdaFunction, rolePolicy, env>>
     ELSE /\ lambdaFunction' = <<NodejsFunctionProps(props)>>
          /\ rolePolicy' = RoleStatements(props)
          /\ env' = ProcessEnv(NodejsFunctionProps(props).environment)
          /\ pc' = "idle"
          /\ UNCHANGED constructorError
  /\ UNCHANGED <<props, event, calls, secretResponse, stripeSecretKey, lineItemsResponse,
                 slackNotificationMessage, topic, logs, outcome, error>>
  /\ UNCHANGED platformVars

NextConstruct == Construct \/ Next

SpecConstruct == InitConstruct /\ [][NextConstruct]_vars

(***************************************************************************)
(* The function deployed by the construct or run in an environment set by  *)
(* hand.                                                                   *)
(***************************************************************************)
InitLanguage == InitConstruct \/ InitRender

SpecLanguage == InitLanguage /\ [][NextConstruct]_vars

(***************************************************************************)
(* The function instance over several invocations.  The handler is a       *)
(* function (line 172): each call has its own locals.  What the model      *)
(* keeps of an invocation (its calls, the answers it got, its log entries, *)
(* the messages it delivered) belongs to that invocation; process.env and  *)
(* the module-scope clients (lines 7-11) belong to the instance.           *)
(***************************************************************************)
InstanceEnvs ==
  [ STRIPE_SECRET_SOURCE         : {"env", "secretsmanager", "ssm"},
    STRIPE_SECRET_KEY            : {"sk_env"},
    STRIPE_SECRET_ARN            : {"arn:secret"},
    STRIPE_SECRET_JSON_KEY       : {Absent},
    STRIPE_SECRET_PARAMETER_NAME : {"/stripe/key"},
    SNS_TOPIC_ARN                : {"arn:topic"},
    STRIPE_ACCOUNT_NAME          : {"Shop"},
    STRIPE_SANDBOX_ACCOUNT_ID    : {"acct_sb"},
    APP_ENV                      : {"production"},
    NOTIFICATION_LANGUAGE        : {Absent} ]

InitInstance ==
  /\ env \in InstanceEnvs
  /\ pc = "idle"
  /\ NoConstruct
  /\ HandlerAtRest

\* what is left of an invocation once it has ended
Finished == [outcome |-> outcome, stripeSecretKey |-> stripeSecretKey, calls |-> calls]

\* line 172: a call of handler starts with fresh locals
FreshInvocation(ev) ==
  /\ event' = ev
  /\ pc' = "received"
  /\ calls' = <<>>
  /\ secretResponse' = <<>>
  /\ stripeSecretKey' = Absent
  /\ lineItemsResponse' = <<>>
  /\ slackNotificationMessage' = <<>>
  /\ topic' = <<>>
  /\ logs' = <<>>
  /\ outcome' = "none"
  /\ error' = NoThrown

\* the platform invokes the same instance again, with any event
InvokeAgain ==
  /\ pc = "done"
  /\ suspended = <<>>
  /\ previous' = <<Finished>>
  /\ \E ev \in Events : FreshInvocation(ev)
  /\ UNCHANGED <<env, suspended>>
  /\ UNCHANGED cdkVars

NextInstance == Next \/ InvokeAgain

SpecInstance == InitInstance /\ [][NextInstance]_vars

(***************************************************************************)
(* The function under a platform that delivers the event again after every *)
(* failed invocation (line 293: "EventBridge will retry") and never after  *)
(* a return, with backends that answer successfully again and again.       *)
(***************************************************************************)
Redeliver ==
  /\ pc = "done"
  /\ outcome = "threw"
  /\ suspended = <<>>
  /\ previous' = <<Finished>>
  /\ FreshInvocation(event)
  /\ UNCHANGED <<env, suspended>>
  /\ UNCHANGED cdkVars

NextRedelivery == Next \/ Redeliver

SpecRedelivery ==
  /\ InitInstance
  /\ [][NextRedelivery]_vars
  /\ WF_vars(NextRedelivery)
  /\ SF_vars(SecretsManagerSettles /\ pc' = "secretResolved")
  /\ SF_vars(SsmSettles /\ pc' = "secretResolved")
  /\ SF_vars(ListLineItemsSettles /\ pc' = "awaitPublish")
  /\ SF_vars(PublishSettles /\ outcome' = "returned")

(***************************************************************************)
(* Two invocations on one instance, interleaved.  Node runs one call of    *)
(* handler until it reaches an await (lines 80, 118, 207, 278) or ends;    *)
(* there another call may start or go on.  The locals of the call that     *)
(* waits are kept in suspended; process.env is the instance's.             *)
(***************************************************************************)
ConcurrentEnvs ==
  [ STRIPE_SECRET_SOURCE         : {"secretsmanager", "ssm"},
    STRIPE_SECRET_KEY            : {Absent},
    STRIPE_SECRET_ARN            : {"arn:secret"},
    STRIPE_SECRET_JSON_KEY       : {"k2"},
    STRIPE_SECRET_PARAMETER_NAME : {"/stripe/key"},
    SNS_TOPIC_ARN                : {"arn:topic"},
    STRIPE_ACCOUNT_NAME          : {"Shop"},
    STRIPE_SANDBOX_ACCOUNT_ID    : {"acct_sb"},
    APP_ENV                      : {"production"},
    NOTIFICATION_LANGUAGE        : {"ja"} ]

InitConcurrent ==
  /\ env \in ConcurrentEnvs
  /\ pc = "idle"
  /\ NoConstruct
  /\ HandlerAtRest

AwaitPoints == {"awaitSecretsManager", "awaitSsm", "awaitListLineItems", "awaitPublish"}

\* the locals of the running call, with what the model keeps of it
Locals ==
  [ event |-> event, pc |-> pc, calls |-> calls, secretResponse |-> secretResponse,
    stripeSecretKey |-> stripeSecretKey, lineItemsResponse |-> lineItemsResponse,
    slackNotificationMessage |-> slackNotificationMessage, topic |-> topic,
    logs |-> logs, outcome |-> outcome, error |-> error ]

\* a call that has ended and is not looked at any more
Retired ==
  [ event |-> NoEvent, pc |-> "done", calls |-> <<>>, secretResponse |-> <<>>,
    stripeSecretKey |-> Absent, lineItemsResponse |-> <<>>,
    slackNotificationMessage |-> <<>>, topic |-> <<>>,
    logs |-> <<>>, outcome |-> "none", error |-> NoThrown ]

\* the waiting call goes on with its own locals
Resume(l) ==
  /\ event' = l.event
  /\ pc' = l.pc
  /\ calls' = l.calls
  /\ secretResponse' = l.secretResponse
  /\ stripeSecretKey' = l.stripeSecretKey
  /\ lineItemsResponse' = l.lineItemsResponse
  /\ slackNotificationMessage' = l.slackNotificationMessage
  /\ topic' = l.topic
  /\ logs' = l.logs
  /\ outcome' = l.outcome
  /\ error' = l.error

\* a second call of handler starts while the first one waits at an await
InvokeConcurrently ==
  /\ pc \in AwaitPoints
  /\ suspended = <<>>
  /\ suspended' = <<Locals>>
  /\ \E ev \in Events : FreshInvocation(ev)
  /\ UNCHANGED <<env, previous>>
  /\ UNCHANGED cdkVars

\* the running call waits at an await or has ended: the other call goes on
Switch ==
  /\ pc \in AwaitPoints \cup {"done"}
  /\ Len(suspended) = 1
  /\ suspended[1].pc # "done"
  /\ Resume(suspended[1])
  /\ suspended' = IF pc = "done" THEN <<Retired>> ELSE <<Locals>>
  /\ UNCHANGED <<env, previous>>
  /\ UNCHANGED cdkVars

NextConcurrent == Next \/ InvokeConcurrently \/ Switch

SpecConcurrent == InitConcurrent /\ [][NextConcurrent]_vars

(***************************************************************************)
(* Vocabulary of the properties.                                           *)
(***************************************************************************)
SupportedTypes ==
  {"checkout.session.completed", "checkout.session.async_payment_succeeded"}

Invoked == event # NoEvent

Made(client) == \E i \in 1..Len(calls) : calls[i] = client

RequiredNames == {"STRIPE_SECRET_SOURCE", "SNS_TOPIC_ARN", "STRIPE_ACCOUNT_NAME"}

MissingNames == {k \in RequiredNames : env[k] \in {Absent, ""}}

\* the kind of an error, read from the head of its message
ErrKind(e) ==
  LET head == IF Len(e.message) = 0 THEN "" ELSE e.message[1] IN
  CASE head \in { "Missing required environment variables: ",
                  "STRIPE_SECRET_SOURCE environment variable is not set",
                  "STRIPE_SECRET_KEY environment variable is not set",
                  "STRIPE_SECRET_ARN environment variable is not set",
                  "STRIPE_SECRET_PARAMETER_NAME environment variable is not set",
                  "Invalid STRIPE_SECRET_SOURCE: " }          -> "ConfigurationError"
    [] head \in { "Secrets Manager error: ", "SSM error: ",
                  "Stripe API error: " }                       -> "UpstreamError"
    [] head = "SNS publish error: "                            -> "PublishError"
    [] head = "Secret key \""                                  -> "NotFoundError"
    [] OTHER                                                   -> "Other"

(***************************************************************************)
(* C1: an invocation whose detail-type is outside the supported set        *)
(* returns successfully, whatever the environment holds, and calls no      *)
(* external service: no secret backend, no listLineItems, no SNS publish.  *)
(***************************************************************************)
C1_UnsupportedTypeSkips ==
  (Invoked /\ event.detailType \notin SupportedTypes) =>
    /\ calls = <<>>
    /\ topic = <<>>
    /\ pc \in {"received", "done"}
    /\ (pc = "done" => outcome = "returned")
    /\ (pc # "done" => outcome = "none")

C1_Witness ==
  /\ pc = "done"
  /\ event.detailType = "payment_intent.created"
  /\ outcome = "returned"
  /\ MissingNames = RequiredNames

(***************************************************************************)
(* C2, as stated: every invocation whose session is unpaid returns         *)
(* successfully and makes neither the listLineItems nor the publish call.  *)
(***************************************************************************)
C2_UnpaidAlwaysReturns ==
  (pc = "done" /\ event.payment_status = "unpaid") =>
    /\ outcome = "returned"
    /\ ~Made("stripe")
    /\ ~Made("sns")

(***************************************************************************)
(* C2, amended: an invocation whose session is unpaid never makes the      *)
(* listLineItems or the publish call and delivers nothing; it returns      *)
(* successfully when the type is unsupported or when configuration         *)
(* validation and secret resolution, which run before the payment-status   *)
(* check, have succeeded; otherwise it fails with their error.             *)
(***************************************************************************)
C2_UnpaidNeverEnriches ==
  (Invoked /\ event.payment_status = "unpaid") =>
    /\ ~Made("stripe")
    /\ ~Made("sns")
    /\ topic = <<>>
    /\ pc \notin {"awaitListLineItems", "awaitPublish"}
    /\ (pc = "done" /\ (stripeSecretKey # Absent \/ event.detailType \notin SupportedTypes)
          => outcome = "returned")
    /\ (pc = "done" /\ outcome = "threw" =>
          /\ ErrKind(error) \in {"ConfigurationError", "UpstreamError"}
          /\ stripeSecretKey = Absent)

C2_Witness ==
  /\ pc = "done"
  /\ event.payment_status = "unpaid"
  /\ event.detailType \in SupportedTypes
  /\ stripeSecretKey # Absent
  /\ outcome = "returned"

(***************************************************************************)
(* C3: with a supported event type and at least one of                     *)
(* STRIPE_SECRET_SOURCE, SNS_TOPIC_ARN, STRIPE_ACCOUNT_NAME missing, the   *)
(* invocation fails, before any external call, and the message names       *)
(* every missing variable and no other.                                    *)
(***************************************************************************)
C3_AllMissingNamed ==
  (Invoked /\ event.detailType \in SupportedTypes /\ MissingNames # {}) =>
    /\ calls = <<>>
    /\ pc \in {"received", "typeFiltered", "done"}
    /\ (pc = "done" =>
          /\ outcome = "threw"
          /\ Len(error.message) >= 2
          /\ error.message[1] = "Missing required environment variables: "
          /\ {error.message[i] : i \in 2..Len(error.message)} \ {", "} = MissingNames
          /\ Len(error.message) = 2 * Cardinality(MissingNames))

C3_Witness ==
  /\ pc = "done"
  /\ event.detailType \in SupportedTypes
  /\ MissingNames = {"SNS_TOPIC_ARN", "STRIPE_ACCOUNT_NAME"}
  /\ outcome = "threw"

(***************************************************************************)
(* C4: a failure of listLineItems makes the invocation fail with an error  *)
(* headed "Stripe API error: " and the publish call is never made; a       *)
(* failure of the publish call makes it fail with an error headed          *)
(* "SNS publish error: "; the two are told apart, and in both cases the    *)
(* invocation has delivered nothing to the topic.                          *)
(***************************************************************************)
C4_FailuresDistinctNothingDelivered ==
  /\ (lineItemsResponse # <<>> /\ lineItemsResponse[1].raised) =>
        /\ pc = "done"
        /\ outcome = "threw"
        /\ error.message[1] = "Stripe API error: "
        /\ ErrKind(error) = "UpstreamError"
        /\ ~Made("sns")
        /\ topic = <<>>
  /\ (pc = "done" /\ Made("sns")) =>
        \/ /\ outcome = "threw"
           /\ error.message[1] = "SNS publish error: "
           /\ ErrKind(error) = "PublishError"
           /\ topic = <<>>
        \/ /\ outcome = "returned"
           /\ Len(topic) = 1

C4_Witness ==
  /\ pc = "done"
  /\ Made("sns")
  /\ outcome = "threw"
  /\ ErrKind(error) = "PublishError"
  /\ topic = <<>>

(***************************************************************************)
(* C5: getStripeSecretKey makes at most one call to a secret backend, and  *)
(* only to the backend that STRIPE_SECRET_SOURCE names: none in mode env,  *)
(* Secrets Manager in mode secretsmanager, SSM in mode ssm.                *)
(***************************************************************************)
BackendCalls == SelectSeq(calls, LAMBDA c : c \in {"secretsmanager", "ssm"})

C5_AtMostOneBackendCall ==
  /\ Len(BackendCalls) <= 1
  /\ \A i \in 1..Len(BackendCalls) : BackendCalls[i] = env.STRIPE_SECRET_SOURCE
  /\ (stripeSecretKey # Absent /\ env.STRIPE_SECRET_SOURCE \in {"secretsmanager", "ssm"})
        => Len(BackendCalls) = 1

C5_Witness ==
  /\ pc = "secretResolved"
  /\ env.STRIPE_SECRET_SOURCE = "ssm"
  /\ env.STRIPE_SECRET_ARN # Absent
  /\ calls = <<"ssm">>

(***************************************************************************)
(* C6: when getStripeSecretKey succeeds its result is STRIPE_SECRET_KEY in *)
(* mode env, the SecretString unchanged in mode secretsmanager without     *)
(* STRIPE_SECRET_JSON_KEY, the field named by STRIPE_SECRET_JSON_KEY of    *)
(* the parsed SecretString when that key is set, and the parameter value   *)
(* in mode ssm.                                                            *)
(***************************************************************************)
C6_ResultPerMode ==
  stripeSecretKey # Absent =>
    LET source == env.STRIPE_SECRET_SOURCE
        jsonKey == env.STRIPE_SECRET_JSON_KEY
    IN  CASE source = "env" -> stripeSecretKey = env.STRIPE_SECRET_KEY
          [] source = "secretsmanager" /\ jsonKey \in {Absent, ""} ->
               /\ secretResponse # <<>>
               /\ stripeSecretKey = secretResponse[1].value
          [] source = "secretsmanager" /\ jsonKey \notin {Absent, ""} ->
               /\ secretResponse # <<>>
               /\ JSONParse(secretResponse[1].value).kind = "object"
               /\ jsonKey \in DOMAIN JSONParse(secretResponse[1].value).fields
               /\ stripeSecretKey = JSONParse(secretResponse[1].value).fields[jsonKey]
          [] source = "ssm" ->
               /\ secretResponse # <<>>
               /\ stripeSecretKey = secretResponse[1].value
          [] OTHER -> FALSE

C6_Witness ==
  /\ env.STRIPE_SECRET_SOURCE = "secretsmanager"
  /\ env.STRIPE_SECRET_JSON_KEY = "k2"
  /\ secretResponse # <<>>
  /\ secretResponse[1].value = "{\"k1\":\"sk_1\",\"k2\":\"sk_2\"}"
  /\ stripeSecretKey = "sk_2"

(***************************************************************************)
(* C7: in mode secretsmanager with STRIPE_SECRET_JSON_KEY set, a document  *)
(* without that field makes getStripeSecretKey fail with a NotFoundError,  *)
(* a kind other than the UpstreamError of a failed Secrets Manager call.   *)
(***************************************************************************)
C7_MissingFieldIsNotFound ==
  ( /\ pc = "done"
    /\ env.STRIPE_SECRET_SOURCE = "secretsmanager"
    /\ env.STRIPE_SECRET_JSON_KEY \notin {Absent, ""}
    /\ secretResponse # <<>>
    /\ ~secretResponse[1].raised
    /\ JSONParse(secretResponse[1].value).kind = "object"
    /\ env.STRIPE_SECRET_JSON_KEY \notin DOMAIN JSONParse(secretResponse[1].value).fields )
  => /\ outcome = "threw"
     /\ ErrKind(error) = "NotFoundError"
     /\ ErrKind(error) # "UpstreamError"

(***************************************************************************)
(* C8: in modes secretsmanager and ssm, when the backend call raises or    *)
(* its response carries an empty or missing value, getStripeSecretKey      *)
(* returns no value and fails with an upstream error of that backend.      *)
(***************************************************************************)
C8_BackendFailureIsUpstream ==
  (secretResponse # <<>>
     /\ (secretResponse[1].raised \/ secretResponse[1].value \in {Absent, ""})) =>
    /\ pc = "done"
    /\ outcome = "threw"
    /\ stripeSecretKey = Absent
    /\ ErrKind(error) = "UpstreamError"
    /\ error.message[1] = (IF env.STRIPE_SECRET_SOURCE = "secretsmanager"
                           THEN "Secrets Manager error: " ELSE "SSM error: ")
    /\ ~Made("stripe")
    /\ ~Made("sns")

C8_Witness ==
  /\ env.STRIPE_SECRET_SOURCE = "ssm"
  /\ secretResponse # <<>>
  /\ ~secretResponse[1].raised
  /\ secretResponse[1].value = ""
  /\ outcome = "threw"

(***************************************************************************)
(* C9: for a STRIPE_SECRET_SOURCE other than env, secretsmanager and ssm,  *)
(* and for a mode whose own parameter (STRIPE_SECRET_KEY,                  *)
(* STRIPE_SECRET_ARN, STRIPE_SECRET_PARAMETER_NAME) is absent,             *)
(* getStripeSecretKey fails with a configuration error and no backend is   *)
(* called.                                                                 *)
(***************************************************************************)
BadSecretConfiguration ==
  \/ env.STRIPE_SECRET_SOURCE \notin {"env", "secretsmanager", "ssm"}
  \/ env.STRIPE_SECRET_SOURCE = "env" /\ env.STRIPE_SECRET_KEY \in {Absent, ""}
  \/ env.STRIPE_SECRET_SOURCE = "secretsmanager" /\ env.STRIPE_SECRET_ARN \in {Absent, ""}
  \/ env.STRIPE_SECRET_SOURCE = "ssm" /\ env.STRIPE_SECRET_PARAMETER_NAME \in {Absent, ""}

C9_BadConfigurationNoBackendCall ==
  BadSecretConfiguration =>
    /\ GetStripeSecretKeyBegin(env).tag = "throw"
    /\ ErrKind(GetStripeSecretKeyBegin(env).thrown) = "ConfigurationError"
    /\ BackendCalls = <<>>
    /\ secretResponse = <<>>
    /\ stripeSecretKey = Absent
    /\ pc \in {"idle", "received", "typeFiltered", "configValidated", "done"}
    /\ (pc = "done" /\ event.detailType \in SupportedTypes =>
          /\ outcome = "threw"
          /\ ErrKind(error) = "ConfigurationError")

C9_Witness ==
  /\ pc = "done"
  /\ env.STRIPE_SECRET_SOURCE = "vault"
  /\ env.STRIPE_SECRET_PARAMETER_NAME # Absent
  /\ MissingNames = {}
  /\ error.message = <<"Invalid STRIPE_SECRET_SOURCE: ", "vault">>

(***************************************************************************)
(* C10: the handler rejects with a configuration error an environment that *)
(* carries the parameters of more than one secret-source variant, or of    *)
(* none, instead of processing the event.                                  *)
(***************************************************************************)
VariantsPresent ==
  {v \in {"STRIPE_SECRET_KEY", "STRIPE_SECRET_ARN", "STRIPE_SECRET_PARAMETER_NAME"} :
     env[v] \notin {Absent, ""}}

C10_ExactlyOneVariantEnforced ==
  (pc = "done" /\ event.detailType \in SupportedTypes /\ Cardinality(VariantsPresent) # 1) =>
    /\ outcome = "threw"
    /\ ErrKind(error) = "ConfigurationError"

(***************************************************************************)
(* Vocabulary of the properties of the construct.                          *)
(***************************************************************************)
SecretOptionNames ==
  {"stripeSecretKey", "stripeSecretKeyFromSecretsManager", "stripeSecretKeyFromSsmParameter"}

\* an option is specified when it is given a value other than the empty string
Specified ==
  { o \in SecretOptionNames :
      IF o = "stripeSecretKey"
      THEN props.stripeSecretKey \notin {Absent, ""}
      ELSE Len(props[o]) = 1 }

Constructed == pc \notin {"undeployed", "rejected"}

Created == lambdaFunction[1]

ChosenIs(o) == Specified = {o}

StatementsFor(action) ==
  { i \in 1..Len(rolePolicy) : rolePolicy[i].actions = <<action>> }

(***************************************************************************)
(* C11: constructing StripeCheckoutHandler succeeds only when exactly one  *)
(* of the three secret options is specified (given and not the empty       *)
(* string); with none, two or three specified the constructor throws an    *)
(* Error and no Lambda function and no role statement is created.          *)
(***************************************************************************)
C11_ExactlyOneOrThrows ==
  pc # "undeployed" =>
    IF Cardinality(Specified) = 1
    THEN constructorError = <<>> /\ Len(lambdaFunction) = 1
    ELSE /\ Len(constructorError) = 1
         /\ constructorError[1].isError
         /\ lambdaFunction = <<>>
         /\ rolePolicy = <<>>
         /\ pc = "rejected"

C11_Witness ==
  /\ pc = "rejected"
  /\ Cardinality(Specified) = 2
  /\ lambdaFunction = <<>>

(***************************************************************************)
(* C12: for every accepted props value, lambdaOptions.environment          *)
(* included, the environment of the created Lambda has the discriminator   *)
(* of the supplied option in STRIPE_SECRET_SOURCE and, among               *)
(* STRIPE_SECRET_KEY, STRIPE_SECRET_ARN, STRIPE_SECRET_JSON_KEY and        *)
(* STRIPE_SECRET_PARAMETER_NAME, only that option's variables, with        *)
(* STRIPE_SECRET_JSON_KEY only when secretKey was given.                   *)
(***************************************************************************)
SecretParameterNames ==
  { "STRIPE_SECRET_KEY", "STRIPE_SECRET_ARN", "STRIPE_SECRET_JSON_KEY",
    "STRIPE_SECRET_PARAMETER_NAME" }

OptionParameterNames ==
  IF ChosenIs("stripeSecretKey") THEN {"STRIPE_SECRET_KEY"}
  ELSE IF ChosenIs("stripeSecretKeyFromSecretsManager")
  THEN {"STRIPE_SECRET_ARN"} \cup
       (IF props.stripeSecretKeyFromSecretsManager[1].secretKey \notin {Absent, ""}
        THEN {"STRIPE_SECRET_JSON_KEY"} ELSE {})
  ELSE {"STRIPE_SECRET_PARAMETER_NAME"}

OptionDiscriminator ==
  IF ChosenIs("stripeSecretKey") THEN "env"
  ELSE IF ChosenIs("stripeSecretKeyFromSecretsManager") THEN "secretsmanager"
  ELSE "ssm"

C12_OnlyChosenOptionVariables ==
  Constructed =>
    /\ Created.environment.STRIPE_SECRET_SOURCE = OptionDiscriminator
    /\ (DOMAIN Created.environment) \cap SecretParameterNames = OptionParameterNames

(***************************************************************************)
(* C13: the role of the created Lambda has exactly one sns:Publish         *)
(* statement, on exactly the given snsTopicArn; it has a                   *)
(* secretsmanager:GetSecretValue statement, on the given secretArn, iff    *)
(* Secrets Manager is the chosen source, and an ssm:GetParameter           *)
(* statement, on the ARN of the named parameter without its leading slash, *)
(* iff the SSM parameter is the chosen source; the constructor adds no     *)
(* other statement.                                                        *)
(***************************************************************************)
ParameterArn ==
  <<"arn:aws:ssm:", "${stack.region}", ":", "${stack.account}", ":parameter/", "stripe/key">>

C13_RoleMatchesSource ==
  Constructed =>
    /\ Cardinality(StatementsFor("sns:Publish")) = 1
    /\ \A i \in StatementsFor("sns:Publish") :
         rolePolicy[i].resources = << <<props.snsTopicArn>> >>
    /\ StatementsFor("secretsmanager:GetSecretValue") # {}
         <=> ChosenIs("stripeSecretKeyFromSecretsManager")
    /\ \A i \in StatementsFor("secretsmanager:GetSecretValue") :
         rolePolicy[i].resources =
           << <<props.stripeSecretKeyFromSecretsManager[1].secretArn>> >>
    /\ StatementsFor("ssm:GetParameter") # {}
         <=> ChosenIs("stripeSecretKeyFromSsmParameter")
    /\ \A i \in StatementsFor("ssm:GetParameter") :
         rolePolicy[i].resources = <<ParameterArn>>
    /\ \A i \in 1..Len(rolePolicy) :
         i \in StatementsFor("sns:Publish")
               \cup StatementsFor("secretsmanager:GetSecretValue")
               \cup StatementsFor("ssm:GetParameter")

C13_Witness ==
  /\ Constructed
  /\ ChosenIs("stripeSecretKeyFromSsmParameter")
  /\ props.stripeSecretKeyFromSsmParameter[1].parameterName = "/stripe/key"
  /\ Len(rolePolicy) = 2

(***************************************************************************)
(* C14: the timeout of the created Lambda is 30 seconds unless             *)
(* lambdaOptions gives one; lambdaOptions' memorySize is kept; entry,      *)
(* handler, runtime and every environment variable the construct sets have *)
(* the construct's value whatever lambdaOptions contains; the other        *)
(* variables of lambdaOptions.environment are kept.                        *)
(***************************************************************************)
OptionsEnvironment ==
  IF "environment" \in DOMAIN props.lambdaOptions
  THEN props.lambdaOptions.environment ELSE <<>>

ConstructSetNames ==
  { "APP_ENV", "SNS_TOPIC_ARN", "STRIPE_ACCOUNT_NAME", "STRIPE_SANDBOX_ACCOUNT_ID",
    "NOTIFICATION_LANGUAGE", "STRIPE_SECRET_SOURCE" } \cup OptionParameterNames

C14_Precedence ==
  Constructed =>
    /\ Created.timeout =
         IF "timeout" \in DOMAIN props.lambdaOptions
         THEN props.lambdaOptions.timeout ELSE 30
    /\ "memorySize" \in DOMAIN props.lambdaOptions =>
         Created.memorySize = props.lambdaOptions.memorySize
    /\ Created.entry = "../lambda/checkout-session.ts"
    /\ Created.handler = "handler"
    /\ Created.runtime = "nodejs20.x"
    /\ Created.environment.APP_ENV = props.environment
    /\ Created.environment.SNS_TOPIC_ARN = props.snsTopicArn
    /\ Created.environment.STRIPE_ACCOUNT_NAME = props.stripeAccountName
    /\ Created.environment.STRIPE_SANDBOX_ACCOUNT_ID =
         IF props.stripeSandboxAccountId = Absent THEN "" ELSE props.stripeSandboxAccountId
    /\ Created.environment.NOTIFICATION_LANGUAGE =
         IF props.notificationLanguage = Absent THEN "en" ELSE props.notificationLanguage
    /\ Created.environment.STRIPE_SECRET_SOURCE = OptionDiscriminator
    /\ ChosenIs("stripeSecretKey") =>
         Created.environment.STRIPE_SECRET_KEY = props.stripeSecretKey
    /\ ChosenIs("stripeSecretKeyFromSecretsManager") =>
         /\ Created.environment.STRIPE_SECRET_ARN =
              props.stripeSecretKeyFromSecretsManager[1].secretArn
         /\ "STRIPE_SECRET_JSON_KEY" \in OptionParameterNames =>
              Created.environment.STRIPE_SECRET_JSON_KEY =
                props.stripeSecretKeyFromSecretsManager[1].secretKey
    /\ ChosenIs("stripeSecretKeyFromSsmParameter") =>
         Created.environment.STRIPE_SECRET_PARAMETER_NAME =
           props.stripeSecretKeyFromSsmParameter[1].parameterName
    /\ \A k \in (DOMAIN OptionsEnvironment) \ ConstructSetNames :
         /\ k \in DOMAIN Created.environment
         /\ Created.environment[k] = OptionsEnvironment[k]

C14_Witness ==
  /\ Constructed
  /\ "entry" \in DOMAIN props.lambdaOptions
  /\ props.lambdaOptions.environment.APP_ENV # props.environment
  /\ Created.environment.LOG_LEVEL = "debug"
  /\ Created.runtime = "nodejs20.x"

(***************************************************************************)
(* Vocabulary of the properties of the message.                            *)
(***************************************************************************)
Published == Len(topic) > 0

Content == slackNotificationMessage[1].content

Link == Content.nextSteps[1]

FetchedItems == lineItemsResponse[1].data

PieceOfLink(piece) == \E k \in 1..Len(Link) : Link[k] = piece

PieceOfPublished(piece) ==
  \E k \in 1..Len(topic[1].Message) : topic[1].Message[k] = piece

(***************************************************************************)
(* C15: with payment_intent the plain string p and with payment_intent an  *)
(* object of id p, the published message has the same dashboard link,      *)
(* ending in the segment p, and the same Payment Intent ID line, showing   *)
(* p.                                                                      *)
(***************************************************************************)
C15_SameForStringAndObject ==
  (Published /\ event.payment_intent.kind \in {"string", "object"}) =>
    /\ Content.description[3] = <<"- *Payment Intent ID*: ", event.payment_intent.id>>
    /\ \E k \in 4..Len(Link) - 1 :
         /\ Link[k] = event.payment_intent.id
         /\ Link[k - 1] = "/"
         /\ Link[k - 2] = "payments"
         /\ Link[k + 1] = "|Dashboard>"

C15_Witness ==
  /\ Published
  /\ event.payment_intent.kind = "object"
  /\ PieceOfLink(event.payment_intent.id)

(***************************************************************************)
(* C16: in every published message, with APP_ENV absent or other than      *)
(* "production" the link has the /test/ segment, the title starts with     *)
(* "[Test] " and the second keyword is the sandbox label with the sandbox  *)
(* account id; with APP_ENV "production" the link has no test segment, the *)
(* title has no prefix, the second keyword is the live-account marker and  *)
(* the sandbox account id is nowhere in the message.                       *)
(***************************************************************************)
C16_TestMarkersFollowAppEnv ==
  Published =>
    IF env.APP_ENV = "production"
    THEN /\ ~PieceOfLink("test")
         /\ Content.title[1] # "[Test] "
         /\ Content.keywords[2] = <<"Live account">>
         /\ env.STRIPE_SANDBOX_ACCOUNT_ID \notin {Absent, ""} =>
              ~PieceOfPublished(env.STRIPE_SANDBOX_ACCOUNT_ID)
    ELSE /\ \E k \in 1..Len(Link) - 3 :
              /\ Link[k] = "https://dashboard.stripe.com"
              /\ Link[k + 1] = "/"
              /\ Link[k + 2] = "test"
              /\ Link[k + 3] = "/"
         /\ Content.title[1] = "[Test] "
         /\ env.STRIPE_SANDBOX_ACCOUNT_ID \notin {Absent, ""} =>
              Content.keywords[2] = <<"Sandbox ID:", " ", env.STRIPE_SANDBOX_ACCOUNT_ID>>

C16_Witness ==
  /\ Published
  /\ env.APP_ENV = Absent
  /\ env.STRIPE_SANDBOX_ACCOUNT_ID = "acct_sb"
  /\ PieceOfLink("test")

(***************************************************************************)
(* C17: with NOTIFICATION_LANGUAGE "ja" and with "en", the title, the      *)
(* account sentence, the dashboard-link text and the unknown-product       *)
(* placeholder of the published message are those of the selected          *)
(* language, the order-detail heading and the keyword labels are the ones  *)
(* both dictionaries hold, and no text that only the other language's      *)
(* templates hold is in the message.                                       *)
(***************************************************************************)
TemplateTexts ==
  [ ja |-> [ title |-> "[ja] Atarashii kessai ga hassei shimashita",
             dashboardLink |-> "[ja] de chuumon wo kakunin suru",
             unknownProduct |-> "[ja] Fumei na shouhin" ],
    en |-> [ title |-> "New payment received",
             dashboardLink |-> "View order in Dashboard",
             unknownProduct |-> "Unknown Product" ] ]

AccountSentence(language) ==
  IF language = "en"
  THEN <<"A payment has been received on the ", env.STRIPE_ACCOUNT_NAME, " ", "account", ".">>
  ELSE <<env.STRIPE_ACCOUNT_NAME, "[ja] akaunto nite kessai ga hassei shimashita.">>

OnlyIn(language) ==
  IF language = "en"
  THEN { "New payment received", "A payment has been received on the ", "account",
         "View order in Dashboard", "Unknown Product" }
  ELSE { "[ja] Atarashii kessai ga hassei shimashita",
         "[ja] akaunto nite kessai ga hassei shimashita.",
         "[ja] de chuumon wo kakunin suru", "[ja] Fumei na shouhin" }

Other(language) == IF language = "en" THEN "ja" ELSE "en"

\* the product-name line of the i-th item
ProductNameLine(i) == Content.description[5 + 5 * (i - 1) + 4]

InLanguage(language) ==
  /\ Content.title[Len(Content.title)] = TemplateTexts[language].title
  /\ Content.description[1] = AccountSentence(language)
  /\ Content.description[5] = <<"*Order detail*">>
  /\ Link[Len(Link)] = TemplateTexts[language].dashboardLink
  /\ Content.keywords[1][1] = "EventType:"
  /\ Content.keywords[2][1] \in {"Sandbox ID:", "Live account"}
  /\ \A i \in 1..Len(FetchedItems) :
       FetchedItems[i].product.kind # "product" =>
         ProductNameLine(i) = <<"- Product name: ", TemplateTexts[language].unknownProduct>>
  /\ \A piece \in OnlyIn(Other(language)) : ~PieceOfPublished(piece)

LanguageNotConfigured ==
  IF Len(lambdaFunction) = 1
  THEN props.notificationLanguage = Absent
  ELSE env.NOTIFICATION_LANGUAGE = Absent

Placeholder ==
  IF env.NOTIFICATION_LANGUAGE = "ja" THEN "[ja] Fumei na shouhin" ELSE "Unknown Product"

C20_UnknownProductNeverFails ==
  (Len(lineItemsResponse) = 1 /\ ~lineItemsResponse[1].raised) =>
    /\ Len(slackNotificationMessage) = 1
    /\ Made("sns")
    /\ Len(Content.description) = IF Len(FetchedItems) = 0 THEN 6 ELSE 5 + 5 * Len(FetchedItems)
    /\ \A i \in 1..Len(FetchedItems) :
         /\ ProductNameLine(i) =
              <<"- Product name: ",
                IF FetchedItems[i].product.kind = "product"
                THEN FetchedItems[i].product.name ELSE Placeholder>>
         /\ Content.description[5 + 5 * (i - 1) + 1] = <<"- Amount total: ", "1000">>
         /\ Content.description[5 + 5 * (i - 1) + 2] = <<"- Amount subtotal: ", "900">>
         /\ Content.description[5 + 5 * (i - 1) + 3] =
              <<"- Description: ", FetchedItems[i].description>>
         /\ Content.description[5 + 5 * (i - 1) + 5] = <<"- Quantity: ", "2">>
    /\ outcome = "threw" => error.message[1] = "SNS publish error: "
    /\ outcome = "returned" => Published

C20_Witness ==
  /\ Published
  /\ outcome = "returned"
  /\ Len(FetchedItems) = 2
  /\ FetchedItems[1].product.kind = "deleted"
  /\ FetchedItems[2].product.kind = "product"
  /\ ProductNameLine(1) = <<"- Product name: ", "Unknown Product">>
  /\ ProductNameLine(2) = <<"- Product name: ", "T-shirt">>

(***************************************************************************)
(* Vocabulary of the properties of an invocation's course.                 *)
(***************************************************************************)
Mentions(entry, piece) == \E k \in 1..Len(entry.text) : entry.text[k] = piece

\* the external calls of a whole invocation in this environment
CallOrder ==
  (IF env.STRIPE_SECRET_SOURCE \in {"secretsmanager", "ssm"}
   THEN <<env.STRIPE_SECRET_SOURCE>> ELSE <<>>) \o <<"stripe", "sns">>

SecretFailed ==
  pc = "done" /\ event.detailType \in SupportedTypes /\ stripeSecretKey = Absent

(***************************************************************************)
(* C22: in every invocation that ends in failure, an error log entry that  *)
(* carries the session id and the event type has been written.             *)
(***************************************************************************)
C22_FailureLogCarriesContext ==
  outcome = "threw" =>
    \E i \in 1..Len(logs) :
      /\ logs[i].level = "error"
      /\ Mentions(logs[i], event.id)
      /\ Mentions(logs[i], event.detailType)

(***************************************************************************)
(* C23: the external calls of an invocation are a prefix of secret-backend *)
(* fetch (none in mode env), listLineItems, publish, each at most once;    *)
(* a call is made only after the type filter and the configuration         *)
(* validation have passed and the call before it has answered              *)
(* successfully; after a failed step no further call is made.              *)
(***************************************************************************)
C23_CallsArePrefixInOrder ==
  /\ Len(calls) <= Len(CallOrder)
  /\ \A i \in 1..Len(calls) : calls[i] = CallOrder[i]
  /\ calls # <<>> => (event.detailType \in SupportedTypes /\ MissingNames = {})
  /\ Made("stripe") =>
       /\ stripeSecretKey # Absent
       /\ \A i \in 1..Len(secretResponse) : ~secretResponse[i].raised
       /\ Len(secretResponse) = Len(BackendCalls)
  /\ Made("sns") => (Len(lineItemsResponse) = 1 /\ ~lineItemsResponse[1].raised)
  /\ SecretFailed => (~Made("stripe") /\ ~Made("sns"))
  /\ (Len(lineItemsResponse) = 1 /\ lineItemsResponse[1].raised) =>
       (pc = "done" /\ ~Made("sns"))
  /\ outcome = "threw" => pc = "done"

C23_Witness ==
  /\ pc = "done"
  /\ calls = <<"secretsmanager", "stripe", "sns">>
  /\ outcome = "threw"

(***************************************************************************)
(* C24: a finished invocation is exactly one of Published (returned, one   *)
(* message published), Skipped (returned, nothing published) and Failed    *)
(* (threw, nothing published); it returns if and only if its one publish   *)
(* call succeeded or it took a skip path (unsupported type, or unpaid      *)
(* session reached after validation and secret resolution); an invocation  *)
(* with a failed step never returns.                                       *)
(***************************************************************************)
TookSkipPath ==
  \/ event.detailType \notin SupportedTypes
  \/ /\ event.payment_status = "unpaid"
     /\ MissingNames = {}
     /\ stripeSecretKey # Absent

C24_ReturnsIffPublishedOrSkipped ==
  /\ pc # "done" => outcome = "none"
  /\ pc = "done" =>
       /\ outcome \in {"returned", "threw"}
       /\ outcome = "returned" <=>
            \/ (Len(topic) = 1 /\ Len(SelectSeq(calls, LAMBDA c : c = "sns")) = 1)
            \/ TookSkipPath
       /\ TookSkipPath => (topic = <<>> /\ ~Made("stripe") /\ ~Made("sns"))
       /\ outcome = "threw" => topic = <<>>
       /\ Made("sns") /\ topic = <<>> => outcome = "threw"
       /\ (\E i \in 1..Len(secretResponse) : secretResponse[i].raised) => outcome = "threw"
       /\ (\E i \in 1..Len(lineItemsResponse) : lineItemsResponse[i].raised) =>
            outcome = "threw"

C24_Witness ==
  /\ pc = "done"
  /\ outcome = "returned"
  /\ Len(topic) = 1
  /\ ~TookSkipPath

(***************************************************************************)
(* C26: after the order-detail heading the description holds exactly one   *)
(* block of five lines per line item Stripe returned, in Stripe's order    *)
(* (the i-th block describes the i-th item); with zero items the section   *)
(* is one empty line and the publish call is still made.                   *)
(***************************************************************************)
OrderDetailSection ==
  SubSeq(Content.description, 6, Len(Content.description))

C26_OneBlockPerItemInOrder ==
  (Len(lineItemsResponse) = 1 /\ ~lineItemsResponse[1].raised) =>
    /\ Content.description[5] = <<"*Order detail*">>
    /\ IF Len(FetchedItems) = 0
       THEN OrderDetailSection = << <<>> >>
       ELSE /\ Len(OrderDetailSection) = 5 * Len(FetchedItems)
            /\ \A i \in 1..Len(FetchedItems) :
                 /\ OrderDetailSection[5 * (i - 1) + 1][1] = "- Amount total: "
                 /\ OrderDetailSection[5 * (i - 1) + 3] =
                      <<"- Description: ", FetchedItems[i].description>>
                 /\ OrderDetailSection[5 * (i - 1) + 5][1] = "- Quantity: "
    /\ Made("sns")
    /\ outcome = "returned" => Published

C26_Witness ==
  /\ Published
  /\ Len(FetchedItems) = 2
  /\ FetchedItems[1].description = "Pen"
  /\ FetchedItems[2].description = "Cap"
  /\ OrderDetailSection[3] = <<"- Description: ", "Pen">>
  /\ OrderDetailSection[8] = <<"- Description: ", "Cap">>

(***************************************************************************)
(* C28: when the construct accepted props whose snsTopicArn,               *)
(* stripeAccountName and chosen secret identifier are non-empty strings,   *)
(* the environment it gave the function has every required variable, and   *)
(* an invocation of the function never fails with a configuration error.   *)
(***************************************************************************)
ChosenIdentifier ==
  IF ChosenIs("stripeSecretKey") THEN props.stripeSecretKey
  ELSE IF ChosenIs("stripeSecretKeyFromSecretsManager")
  THEN props.stripeSecretKeyFromSecretsManager[1].secretArn
  ELSE props.stripeSecretKeyFromSsmParameter[1].parameterName

WellFormedProps ==
  /\ props.snsTopicArn \notin {Absent, ""}
  /\ props.stripeAccountName \notin {Absent, ""}
  /\ ChosenIdentifier \notin {Absent, ""}

C28_ConstructedEnvironmentIsValid ==
  (Constructed /\ WellFormedProps) =>
    /\ MissingNames = {}
    /\ env.STRIPE_SECRET_SOURCE \in {"env", "secretsmanager", "ssm"}
    /\ outcome = "threw" => ErrKind(error) # "ConfigurationError"
    /\ (pc = "done" /\ event.detailType \in SupportedTypes /\ stripeSecretKey = Absent) =>
         Len(secretResponse) = 1

C28_Witness ==
  /\ Constructed
  /\ WellFormedProps
  /\ ChosenIs("stripeSecretKeyFromSsmParameter")
  /\ pc = "secretResolved"
  /\ calls = <<"ssm">>

(***************************************************************************)
(* C29: with payment_intent null or absent the handler does not fail: the  *)
(* link ends with the payments segment, the Payment Intent ID line holds   *)
(* the text undefined in place of an identifier, and the publish call is   *)
(* made.                                                                   *)
(***************************************************************************)
C29_NoPaymentIntentStillPublishes ==
  (Len(lineItemsResponse) = 1 /\ ~lineItemsResponse[1].raised
     /\ event.payment_intent.kind = "null") =>
    /\ Len(slackNotificationMessage) = 1
    /\ Link[Len(Link) - 2] = "payments"
    /\ Link[Len(Link) - 1] = "|Dashboard>"
    /\ Content.description[3] = <<"- *Payment Intent ID*: ", "undefined">>
    /\ Made("sns")
    /\ outcome = "threw" => error.message[1] = "SNS publish error: "
    /\ outcome = "returned" => Published

C29_Witness ==
  /\ Published
  /\ outcome = "returned"
  /\ event.payment_intent.kind = "null"
  /\ env.APP_ENV = "production"
  /\ Link[2] = "https://dashboard.stripe.com"
  /\ Link[4] = "payments"

(***************************************************************************)
(* C30: with NOTIFICATION_LANGUAGE set to a value other than "en" and      *)
(* "ja" the message is still published and its dictionary texts, its       *)
(* account sentence and its unknown-product placeholder are all those of   *)
(* one language.                                                           *)
(***************************************************************************)
C30_OtherValueOneLanguage ==
  (Published /\ env.NOTIFICATION_LANGUAGE \notin {Absent, "", "en", "ja"}) =>
    (InLanguage("en") \/ InLanguage("ja"))

(***************************************************************************)
(* C21: on one instance every invocation, a later one included, starts at  *)
(* the type filter with nothing of the invocation before it: no call made, *)
(* no answer, no key, no message.  In modes secretsmanager and ssm every   *)
(* invocation that has resolved the secret has made its own backend call   *)
(* and holds the value that call returned, whatever the invocation before  *)
(* it held.                                                                *)
(***************************************************************************)
C21_NothingCarriedOver ==
  /\ pc = "received" =>
       /\ calls = <<>>
       /\ secretResponse = <<>>
       /\ stripeSecretKey = Absent
       /\ lineItemsResponse = <<>>
       /\ slackNotificationMessage = <<>>
       /\ outcome = "none"
  /\ (env.STRIPE_SECRET_SOURCE \in {"secretsmanager", "ssm"} /\ stripeSecretKey # Absent) =>
       /\ BackendCalls = <<env.STRIPE_SECRET_SOURCE>>
       /\ Len(secretResponse) = 1
       /\ ~secretResponse[1].raised
       /\ stripeSecretKey = secretResponse[1].value

C21_Witness ==
  /\ Len(previous) = 1
  /\ env.STRIPE_SECRET_SOURCE = "secretsmanager"
  /\ previous[1].stripeSecretKey = "sk_raw"
  /\ stripeSecretKey \notin {Absent, "sk_raw"}
  /\ pc = "secretResolved"

(***************************************************************************)
(* C27: under redelivery after every failure, a valid configuration and    *)
(* backends that answer successfully again and again, every supported      *)
(* event with a paid session leads to an invocation that ends Published;   *)
(* an event is delivered again only after a failure, so never an event of  *)
(* unsupported type, and an unpaid one only when secret resolution failed; *)
(* an invocation that follows a failed publish makes its own secret fetch  *)
(* and its own listLineItems call before it publishes.                     *)
(***************************************************************************)
EndsPublished == pc = "done" /\ outcome = "returned" /\ Len(topic) = 1

C27_RedeliveryLeadsToPublished ==
  /\ (event.detailType \in SupportedTypes /\ event.payment_status = "paid") ~> EndsPublished
  /\ [](Len(previous) = 1 =>
          /\ previous[1].outcome = "threw"
          /\ event.detailType \in SupportedTypes
          /\ event.payment_status = "unpaid" => previous[1].stripeSecretKey = Absent)
  /\ []((Len(previous) = 1 /\ Made("sns")) =>
          /\ calls = CallOrder
          /\ Len(secretResponse) = Len(BackendCalls)
          /\ Len(lineItemsResponse) = 1)

C27_Witness ==
  /\ Len(previous) = 1
  /\ previous[1].calls = <<"ssm", "stripe", "sns">>
  /\ calls = <<"ssm", "stripe", "sns">>
  /\ EndsPublished

(***************************************************************************)
(* C25: with two invocations interleaved on one instance, each invocation  *)
(* has the outcome of a run alone on its own event, the environment and    *)
(* the answers it got itself: its key is the one its own secret answer     *)
(* holds, its message is the one built from its own event and line items,  *)
(* the message it publishes is that message, and it ends Published,        *)
(* Skipped or Failed as its own answers decide; and no step of the handler *)
(* changes process.env.                                                    *)
(***************************************************************************)
OwnKey ==
  IF env.STRIPE_SECRET_SOURCE = "secretsmanager"
  THEN GetProperty(JSONParse(secretResponse[1].value), env.STRIPE_SECRET_JSON_KEY)
  ELSE secretResponse[1].value

AsRunAlone ==
  /\ stripeSecretKey # Absent =>
       (Len(secretResponse) = 1 /\ ~secretResponse[1].raised /\ stripeSecretKey = OwnKey)
  /\ Len(slackNotificationMessage) = 1 =>
       /\ Len(lineItemsResponse) = 1
       /\ slackNotificationMessage[1] =
            SlackNotificationMessage(env, event, lineItemsResponse[1].data)
  /\ Len(topic) <= 1
  /\ Len(topic) = 1 => topic[1] = PublishCommand(env, slackNotificationMessage[1])
  /\ pc = "done" =>
       IF event.detailType \notin SupportedTypes
       THEN outcome = "returned" /\ calls = <<>> /\ topic = <<>>
       ELSE IF stripeSecretKey = Absent
       THEN outcome = "threw" /\ Len(secretResponse) = 1 /\ topic = <<>>
       ELSE IF event.payment_status = "unpaid"
       THEN outcome = "returned" /\ lineItemsResponse = <<>> /\ topic = <<>>
       ELSE IF lineItemsResponse[1].raised
       THEN outcome = "threw" /\ topic = <<>>
       ELSE \/ outcome = "returned" /\ Len(topic) = 1
            \/ outcome = "threw" /\ topic = <<>> /\ error.message[1] = "SNS publish error: "

C25_InterleavingChangesNothing ==
  /\ [](pc # "idle" => AsRunAlone)
  /\ [][env' = env]_vars

C25_Witness ==
  /\ Len(suspended) = 1
  /\ suspended[1].pc = "awaitPublish"
  /\ suspended[1].event.detailType # event.detailType
  /\ EndsPublished
  /\ AsRunAlone

====
